---- MODULE Spec2Model ----
(***************************************************************************)
(* Model of the OpenCTI MCP server (src/server.py, src/queries.py):        *)
(* OpenCTIClient.execute_query and the three tool handlers                 *)
(* search_knowledge_base, get_observable_details and get_threat_entity.    *)
(*                                                                         *)
(* A text is a sequence of atoms.  A character of remote or caller data is *)
(* one atom ("a", "b", the newline NL, a digit); every literal fragment of *)
(* a format string of the source is one atom of its own ("Score: ").  The  *)
(* data alphabet holds no literal fragment, so a label found in an output  *)
(* was put there by the handler.  Literals are written without accents.    *)
(*                                                                         *)
(* A JSON value is a tagged record; a Python exception is the record       *)
(* Raise(cls, msg, status).                                                *)
(***************************************************************************)
EXTENDS Integers, Sequences, FiniteSets, TLC

\* ------------------------------------------------------------ bounds
\* Longest listing (edges) the remote returns.
MaxEdges == 2
\* Longest indicators / reports relation of an observable.
MaxRel == 2
\* Longest `errors` list of a GraphQL body.
MaxErrors == 2
\* Concurrent tool invocations of SpecConc.
NumCalls == 2

\* ------------------------------------------------------------ JSON values
Null == [t |-> "null"]
Str(s) == [t |-> "str", v |-> s]
Num(n) == [t |-> "num", v |-> n]
Bool(b) == [t |-> "bool", v |-> b]
List(l) == [t |-> "list", v |-> l]
Obj(f) == [t |-> "obj", v |-> f]
\* A key that the body does not carry (never a value of a built object).
Missing == [t |-> "missing"]
\* A response body that is not JSON at all.
NotJson == [t |-> "notjson"]

EmptyMap == [k \in {} |-> Null]
\* The object with the fields of r that are not Missing.
MkObj(r) == Obj([k \in {x \in DOMAIN r : r[x] # Missing} |-> r[k]])

\* Reading a JSON value.
Has(o, k) == o.t = "obj" /\ k \in DOMAIN o.v
HasStr(o, k) == Has(o, k) /\ o.v[k].t = "str"
Absent(o, k) == o.t = "obj" /\ (k \notin DOMAIN o.v \/ o.v[k] = Null)

\* ------------------------------------------------------------ Python
Raise(cls, msg, status) == [t |-> "exc", cls |-> cls, msg |-> msg, status |-> status]
IsExc(x) == x.t = "exc"

NL == "\n"

\* bool(v)
Truthy(v) ==
    CASE v.t = "null" -> FALSE
      [] v.t = "str"  -> v.v # <<>>
      [] v.t = "num"  -> v.v # 0
      [] v.t = "bool" -> v.v
      [] v.t = "list" -> v.v # <<>>
      [] v.t = "obj"  -> DOMAIN v.v # {}

\* a or b
PyOr(a, b) == IF Truthy(a) THEN a ELSE b

\* d.get(k, default)
PyGet(d, k, default) ==
    IF d.t # "obj" THEN Raise("AttributeError", <<"no attribute 'get'">>, 0)
    ELSE IF k \in DOMAIN d.v THEN d.v[k] ELSE default

\* d[k], k a string
PyItem(d, k) ==
    IF d.t = "obj"
    THEN IF k \in DOMAIN d.v THEN d.v[k] ELSE Raise("KeyError", <<"'", k, "'">>, 0)
    ELSE Raise("TypeError", <<"not subscriptable by str">>, 0)

\* l[0]
PyFirst(l) ==
    CASE l.t = "list" -> IF l.v = <<>> THEN Raise("IndexError", <<"list index out of range">>, 0)
                         ELSE l.v[1]
      [] l.t = "obj"  -> Raise("KeyError", <<"0">>, 0)
      [] l.t = "str"  -> IF l.v = <<>> THEN Raise("IndexError", <<"string index out of range">>, 0)
                         ELSE Str(<<l.v[1]>>)
      [] OTHER        -> Raise("TypeError", <<"not subscriptable">>, 0)

DigitChars == <<"0", "1", "2", "3", "4", "5", "6", "7", "8", "9">>

RECURSIVE Digits(_)
\* str(n), n a natural number
Digits(n) == IF n < 10 THEN <<DigitChars[n + 1]>>
             ELSE Digits(n \div 10) \o <<DigitChars[(n % 10) + 1]>>

RECURSIVE Join(_, _)
\* sep.join(parts), parts a sequence of texts
Join(parts, sep) ==
    IF parts = <<>> THEN <<>>
    ELSE IF Len(parts) = 1 THEN parts[1]
    ELSE parts[1] \o sep \o Join(Tail(parts), sep)

\* repr(v) of a list element
Repr(v) ==
    CASE v.t = "str"  -> <<"'">> \o v.v \o <<"'">>
      [] v.t = "null" -> <<"None">>
      [] v.t = "num"  -> Digits(v.v)
      [] v.t = "bool" -> IF v.v THEN <<"True">> ELSE <<"False">>

\* str(v), as an f-string renders v
PyStr(v) ==
    CASE v.t = "str"  -> v.v
      [] v.t = "null" -> <<"None">>
      [] v.t = "num"  -> Digits(v.v)
      [] v.t = "bool" -> IF v.v THEN <<"True">> ELSE <<"False">>
      [] v.t = "list" -> <<"[">> \o Join([i \in DOMAIN v.v |-> Repr(v.v[i])], <<", ">>) \o <<"]">>

\* ------------------------------------------------------------ texts
Contains(text, sub) ==
    \E i \in 0..(Len(text) - Len(sub)) : SubSeq(text, i + 1, i + Len(sub)) = sub

\* The lines of a text are its newline-separated pieces.
LineCount(text) == Cardinality({i \in DOMAIN text : text[i] = NL}) + 1

\* Whether some line of text starts with the atom `label`.
HasLine(text, label) ==
    \E i \in DOMAIN text : text[i] = label /\ (i = 1 \/ text[i - 1] = NL)

\* ------------------------------------------------------------ execute_query
\* for x in v: the elements the loop visits, or the TypeError it raises.  A dict
\* yields its keys; every loop of the source subscripts its element with a
\* string key first, which raises on the first key, so one key stands for all.
PyIter(v) ==
    CASE v.t = "list" -> v
      [] v.t = "obj"  -> IF DOMAIN v.v = {} THEN List(<<>>)
                         ELSE List(<<Str(<<CHOOSE k \in DOMAIN v.v : TRUE>>)>>)
      [] v.t = "str"  -> List([i \in DOMAIN v.v |-> Str(<<v.v[i]>>)])
      [] OTHER        -> Raise("TypeError", <<"object is not iterable">>, 0)

\* The results of a loop body over a sequence: the first exception raised, or
\* the list of the results.
Collect(ms) ==
    IF \E i \in DOMAIN ms : IsExc(ms[i])
    THEN ms[CHOOSE i \in DOMAIN ms : IsExc(ms[i]) /\ \A j \in 1..(i - 1) : ~IsExc(ms[j])]
    ELSE List(ms)

\* d[k1][k2]
PyItem2(d, k1, k2) == LET a == PyItem(d, k1) IN IF IsExc(a) THEN a ELSE PyItem(a, k2)

\* "errors" in data
HasErrors(data) ==
    CASE data.t = "obj"  -> Bool("errors" \in DOMAIN data.v)
      [] data.t = "list" -> Bool(FALSE)
      [] data.t = "str"  -> Bool(FALSE)
      [] OTHER           -> Raise("TypeError", <<"argument is not iterable">>, 0)

\* Mutant of RaiseForStatus: only client and server errors raise.
RaiseForStatus_ErrorsOnly(status) ==
    IF status < 400 THEN Null ELSE Raise("HTTPStatusError", <<"status">>, status)

\* response.raise_for_status(): httpx raises HTTPStatusError for every status
\* that is not 2xx.
RaiseForStatus(status) ==
    IF status \in 200..299 THEN Null ELSE Raise("HTTPStatusError", <<"status">>, status)

\* Lines 59-61: the error of the first element of data['errors'].
GraphQLError(data) ==
    LET errs == PyItem(data, "errors") IN
    IF IsExc(errs) THEN errs ELSE
    LET e == PyFirst(errs) IN
    IF IsExc(e) THEN e ELSE
    LET m == PyItem(e, "message") IN
    IF IsExc(m) THEN m
    ELSE Raise("ToolError", <<"Error GraphQL: ">> \o PyStr(m), 0)

\* Mutant of TryBody: `errors` is looked at only when the body brings no data.
TryBody_DataWins(status, body) ==
    LET st == RaiseForStatus(status) IN
    IF IsExc(st) THEN st
    ELSE IF body = NotJson THEN Raise("JSONDecodeError", <<"Expecting value">>, 0)
    ELSE LET he == HasErrors(body) IN
         IF IsExc(he) THEN he
         ELSE IF he.v /\ ~(Has(body, "data") /\ body.v.data # Null) THEN GraphQLError(body)
         ELSE PyGet(body, "data", Obj(EmptyMap))

\* Lines 55-63, the try block after the response arrived: the value returned
\* or the exception raised inside the block.
TryBody(status, body) ==
    LET st == RaiseForStatus(status) IN
    IF IsExc(st) THEN st
    ELSE IF body = NotJson THEN Raise("JSONDecodeError", <<"Expecting value">>, 0)
    ELSE LET he == HasErrors(body) IN
         IF IsExc(he) THEN he
         ELSE IF he.v THEN GraphQLError(body)
         ELSE PyGet(body, "data", Obj(EmptyMap))

\* The httpx exceptions of a failed exchange (subclasses of httpx.RequestError).
RequestErrors == {"ConnectError", "ReadTimeout"}

\* Lines 65-73, the except clauses in their order: what an exception raised
\* inside the try block becomes.
ExceptClauses(e) ==
    IF e.cls = "HTTPStatusError"
    THEN Raise("ToolError", <<"Error de conexion con OpenCTI: ">> \o Digits(e.status), 0)
    ELSE IF e.cls \in RequestErrors
    THEN Raise("ToolError", <<"No se pudo conectar al servidor OpenCTI: ">> \o e.msg, 0)
    ELSE Raise("ToolError", <<"Error interno: ">> \o e.msg, 0)

\* execute_query once the remote answered with (status, body).
ExecuteQuery(status, body) ==
    LET r == TryBody(status, body) IN IF IsExc(r) THEN ExceptClauses(r) ELSE r

\* ------------------------------------------------------------ search_knowledge_base
\* Lines 98-102: the line of one edge.
SearchLine(edge) ==
    LET node == PyItem(edge, "node") IN
    IF IsExc(node) THEN node ELSE
    LET n1 == PyGet(node, "name", Null) IN
    IF IsExc(n1) THEN n1 ELSE
    LET name == PyOr(n1, PyOr(PyGet(node, "observable_value", Null), Str(<<"Desconocido">>)))
        desc == PyOr(PyGet(node, "description", Null),
                     PyOr(PyGet(node, "x_opencti_description", Null), Str(<<"Sin descripcion">>)))
        ty == PyItem(node, "entity_type")
        id == PyItem(node, "id")
    IN IF IsExc(ty) THEN ty
       ELSE IF IsExc(id) THEN id
       ELSE Str(<<"- [">> \o PyStr(ty) \o <<"] ">> \o PyStr(name) \o <<" (ID: ">>
                \o PyStr(id) \o <<"): ">> \o PyStr(desc))

NoResults == <<"No se encontraron resultados.">>

\* Lines 92-104.
search_knowledge_base(data) ==
    LET gs == PyGet(data, "globalSearch", Obj(EmptyMap)) IN
    IF IsExc(gs) THEN gs ELSE
    LET edges == PyGet(gs, "edges", List(<<>>)) IN
    IF IsExc(edges) THEN edges
    ELSE IF ~Truthy(edges) THEN Str(NoResults)
    ELSE LET it == PyIter(edges) IN
         IF IsExc(it) THEN it ELSE
         LET ls == Collect([i \in DOMAIN it.v |-> SearchLine(it.v[i])]) IN
         IF IsExc(ls) THEN ls
         ELSE Str(Join([i \in DOMAIN ls.v |-> ls.v[i].v], <<NL>>))

\* ------------------------------------------------------------ get_observable_details
\* node.get(key, {}).get("edges", [])
RelEdges(node, key) ==
    LET rel == PyGet(node, key, Obj(EmptyMap)) IN
    IF IsExc(rel) THEN rel ELSE PyGet(rel, "edges", List(<<>>))

\* Line 124: [i["node"]["name"] for i in ...]
IndicatorNames(node) ==
    LET es == RelEdges(node, "indicators") IN
    IF IsExc(es) THEN es ELSE
    LET it == PyIter(es) IN
    IF IsExc(it) THEN it
    ELSE Collect([i \in DOMAIN it.v |-> PyItem2(it.v[i], "node", "name")])

\* f"{r['node']['name']} ({r['node']['published']})"
ReportText(r) ==
    LET name == PyItem2(r, "node", "name") IN
    IF IsExc(name) THEN name ELSE
    LET pub == PyItem2(r, "node", "published") IN
    IF IsExc(pub) THEN pub
    ELSE Str(PyStr(name) \o <<" (">> \o PyStr(pub) \o <<")">>)

\* Line 125
ReportTexts(node) ==
    LET es == RelEdges(node, "reports") IN
    IF IsExc(es) THEN es ELSE
    LET it == PyIter(es) IN
    IF IsExc(it) THEN it
    ELSE Collect([i \in DOMAIN it.v |-> ReportText(it.v[i])])

\* ', '.join(items) if items else 'Ninguno': str.join takes strings only.
JoinOrNone(items) ==
    IF items.v = <<>> THEN Str(<<"Ninguno">>)
    ELSE IF \E i \in DOMAIN items.v : items.v[i].t # "str"
    THEN Raise("TypeError", <<"sequence item: expected str instance">>, 0)
    ELSE Str(Join([i \in DOMAIN items.v |-> items.v[i].v], <<", ">>))

NoObservable(value) == <<"No se encontro informacion para el observable: ">> \o value

\* Lines 121-136: the text of the first record.
ObservableText(node) ==
    LET indicators == IndicatorNames(node) IN
    IF IsExc(indicators) THEN indicators ELSE
    LET reports == ReportTexts(node) IN
    IF IsExc(reports) THEN reports ELSE
    LET ty == PyItem(node, "entity_type")
        val == PyItem(node, "observable_value")
        score == PyOr(PyGet(node, "x_opencti_score", Null), Str(<<"N/A">>))
        desc == PyOr(PyGet(node, "x_opencti_description", Null), Str(<<"N/A">>))
        inds == JoinOrNone(indicators)
        reps == JoinOrNone(reports)
    IN IF IsExc(ty) THEN ty
       ELSE IF IsExc(val) THEN val
       ELSE IF IsExc(inds) THEN inds
       ELSE IF IsExc(reps) THEN reps
       ELSE Str(Join(<< <<"Tipo: ">> \o PyStr(ty),
                        <<"Valor: ">> \o PyStr(val),
                        <<"Score: ">> \o PyStr(score),
                        <<"Descripcion: ">> \o PyStr(desc),
                        <<"Indicadores asociados: ">> \o inds.v,
                        <<"Mencionado en reportes: ">> \o reps.v >>, <<NL>>))

\* Mutant of get_observable_details: no test for an empty listing.
get_observable_details_NoEmptyTest(data, value) ==
    LET l == PyGet(data, "stixCyberObservables", Obj(EmptyMap)) IN
    IF IsExc(l) THEN l ELSE
    LET edges == PyGet(l, "edges", List(<<>>)) IN
    IF IsExc(edges) THEN edges
    ELSE LET first == PyFirst(edges) IN
         IF IsExc(first) THEN first ELSE
         LET node == PyItem(first, "node") IN
         IF IsExc(node) THEN node ELSE ObservableText(node)

\* Lines 117-136.
get_observable_details(data, value) ==
    LET l == PyGet(data, "stixCyberObservables", Obj(EmptyMap)) IN
    IF IsExc(l) THEN l ELSE
    LET edges == PyGet(l, "edges", List(<<>>)) IN
    IF IsExc(edges) THEN edges
    ELSE IF ~Truthy(edges) THEN Str(NoObservable(value))
    ELSE LET first == PyFirst(edges) IN
         IF IsExc(first) THEN first ELSE
         LET node == PyItem(first, "node") IN
         IF IsExc(node) THEN node ELSE ObservableText(node)

\* ------------------------------------------------------------ get_threat_entity
NoEntity(name) == <<"No se encontro la entidad: ">> \o name

\* Lines 155-169: the text of the first record.
EntityText(node) ==
    LET nm == PyItem(node, "name") IN
    IF IsExc(nm) THEN nm ELSE
    LET ty == PyItem(node, "entity_type") IN
    IF IsExc(ty) THEN ty ELSE
    LET desc == PyOr(PyGet(node, "description", Null), Str(<<"N/A">>))
        created == PyOr(PyGet(node, "created", Null), Str(<<"N/A">>))
        common == << <<"Nombre: ">> \o PyStr(nm),
                     <<"Tipo: ">> \o PyStr(ty),
                     <<"Descripcion: ">> \o PyStr(desc),
                     <<"Creado: ">> \o PyStr(created) >>
        actor == IF ty = Str(<<"Threat-Actor">>)
                 THEN << <<"Tipos: ">> \o PyStr(PyGet(node, "threat_actor_types", List(<<>>))),
                         <<"Objetivos: ">> \o PyStr(PyGet(node, "goals", List(<<>>))) >>
                 ELSE <<>>
        malware == IF ty = Str(<<"Malware">>)
                   THEN << <<"Familia de malware: ">> \o PyStr(PyGet(node, "is_family", Bool(FALSE))) >>
                   ELSE <<>>
    IN Str(Join(common \o actor \o malware, <<NL>>))

\* Mutant of get_threat_entity: the last record is formatted, not the first.
get_threat_entity_Last(data, name) ==
    LET l == PyGet(data, "stixDomainObjects", Obj(EmptyMap)) IN
    IF IsExc(l) THEN l ELSE
    LET edges == PyGet(l, "edges", List(<<>>)) IN
    IF IsExc(edges) THEN edges
    ELSE IF ~Truthy(edges) THEN Str(NoEntity(name))
    ELSE IF edges.t # "list" THEN Raise("TypeError", <<"not subscriptable">>, 0)
    ELSE LET node == PyItem(edges.v[Len(edges.v)], "node") IN
         IF IsExc(node) THEN node ELSE EntityText(node)

\* Lines 148-169.
get_threat_entity(data, name) ==
    LET l == PyGet(data, "stixDomainObjects", Obj(EmptyMap)) IN
    IF IsExc(l) THEN l ELSE
    LET edges == PyGet(l, "edges", List(<<>>)) IN
    IF IsExc(edges) THEN edges
    ELSE IF ~Truthy(edges) THEN Str(NoEntity(name))
    ELSE LET first == PyFirst(edges) IN
         IF IsExc(first) THEN first ELSE
         LET node == PyItem(first, "node") IN
         IF IsExc(node) THEN node ELSE EntityText(node)

\* The handler's code after `await client.execute_query(...)` returned data.
Handler(tool, arg, data) ==
    CASE tool = "search_knowledge_base"  -> search_knowledge_base(data)
      [] tool = "get_observable_details" -> get_observable_details(data, arg)
      [] tool = "get_threat_entity"      -> get_threat_entity(data, arg)

\* ------------------------------------------------------------ remote behaviours
SeqsUpTo(S, n) == UNION {[1..k -> S] : k \in 0..n}

\* limit: int = 10
DefaultLimit == 10

Tools == {"search_knowledge_base", "get_observable_details", "get_threat_entity"}
\* keyword / value / name of a call
Args == {<<"a">>, <<"b", "a">>}
Limits == {1, DefaultLimit}

\* The key of data that each query template asks for (queries.py).
ListingKey(tool) ==
    CASE tool = "search_knowledge_base"  -> "globalSearch"
      [] tool = "get_observable_details" -> "stixCyberObservables"
      [] tool = "get_threat_entity"      -> "stixDomainObjects"

Edge(node) == MkObj([node |-> node])

\* globalSearch nodes: id, entity_type and, by variant, name/description or
\* observable_value/x_opencti_description; an absent field is a missing key or null.
SearchNodes ==
    {MkObj([id |-> i, entity_type |-> ty, name |-> n, observable_value |-> o,
            description |-> d, x_opencti_description |-> xd]) :
        i \in {Str(<<"x">>), Str(<<"y">>), Missing},
        ty \in {Str(<<"Malware">>), Str(<<"IPv4-Addr">>), Missing},
        n \in {Missing, Null, Str(<<"a">>)},
        o \in {Missing, Str(<<"b">>)},
        d \in {Missing, Null, Str(<<"a">>), Str(<<"a", NL, "b">>)},
        xd \in {Missing, Str(<<"b">>)}}
\* The records that follow the first one of a search listing.
MoreSearchNodes ==
    {MkObj([id |-> Str(<<"y">>), entity_type |-> Str(<<"Malware">>), name |-> Str(<<"b">>),
            description |-> Str(<<"b">>)]),
     MkObj([id |-> Str(<<"x">>), entity_type |-> Str(<<"IPv4-Addr">>),
            observable_value |-> Str(<<"a">>), x_opencti_description |-> Null])}

IndicatorEdges == {Edge(MkObj([name |-> n, pattern |-> Str(<<"a">>)])) :
                      n \in {Str(<<"p">>), Str(<<"q">>), Null}}
ReportEdges == {Edge(MkObj([name |-> Str(<<"r">>), published |-> Str(<<"d">>)])),
                Edge(MkObj([name |-> Str(<<"s">>), published |-> Null]))}
\* A relation of a record: missing, null, without edges, with null edges, or a list.
Relations(E) ==
    {Missing, Null, Obj(EmptyMap), MkObj([edges |-> Null])}
    \cup {MkObj([edges |-> List(l)]) : l \in SeqsUpTo(E, MaxRel)}

Scores == {0, 50, 100}
\* A record of every content of its optional fields, and the records that lack a
\* key the query always selects.
ObservableNodes ==
    {MkObj([id |-> Str(<<"x">>), entity_type |-> Str(<<"IPv4-Addr">>),
            observable_value |-> Str(<<"a">>),
            x_opencti_score |-> sc, x_opencti_description |-> d,
            indicators |-> ind, reports |-> rep]) :
        sc \in {Missing, Null} \cup {Num(n) : n \in Scores},
        d \in {Missing, Null, Str(<<"a">>)},
        ind \in Relations(IndicatorEdges),
        rep \in Relations(ReportEdges)}
    \cup
    {MkObj([id |-> Str(<<"x">>), entity_type |-> ty, observable_value |-> v,
            x_opencti_score |-> sc, indicators |-> ind]) :
        ty \in {Str(<<"IPv4-Addr">>), Missing},
        v \in {Str(<<"a">>), Missing},
        sc \in {Null, Num(50)},
        ind \in {Missing, Null}}
MoreObservableNodes ==
    {MkObj([id |-> Str(<<"y">>), entity_type |-> Str(<<"Domain-Name">>),
            observable_value |-> Str(<<"b">>), x_opencti_score |-> Num(7),
            x_opencti_description |-> Str(<<"b">>),
            indicators |-> MkObj([edges |-> List(<<Edge(MkObj([name |-> Str(<<"z">>)]))>>)]),
            reports |-> MkObj([edges |-> List(<<Edge(MkObj([name |-> Str(<<"z">>),
                                                            published |-> Str(<<"z">>)]))>>)])])}

EntityNodes ==
    {MkObj([id |-> Str(<<"x">>), name |-> n, entity_type |-> ty, description |-> d,
            created |-> cr, threat_actor_types |-> tt, goals |-> g, is_family |-> fam]) :
        n \in {Str(<<"a">>), Missing},
        ty \in {Str(<<"Threat-Actor">>), Str(<<"Malware">>), Str(<<"Intrusion-Set">>), Missing},
        d \in {Missing, Null, Str(<<"a">>)},
        cr \in {Missing, Null, Str(<<"d">>)},
        tt \in {Missing, Null, List(<<>>), List(<<Str(<<"t">>)>>)},
        g \in {Missing, Null, List(<<Str(<<"g">>)>>)},
        fam \in {Missing, Null, Bool(TRUE), Bool(FALSE)}}
\* A second match of another type than any first one's type-specific lines fit.
MoreEntityNodes ==
    {MkObj([id |-> Str(<<"y">>), name |-> Str(<<"b">>), entity_type |-> Str(<<"Threat-Actor">>),
            threat_actor_types |-> List(<<Str(<<"z">>)>>), goals |-> List(<<Str(<<"z">>)>>)]),
     MkObj([id |-> Str(<<"y">>), name |-> Str(<<"b">>), entity_type |-> Str(<<"Malware">>),
            is_family |-> Bool(TRUE)])}

FirstNodes(tool) ==
    CASE tool = "search_knowledge_base"  -> SearchNodes
      [] tool = "get_observable_details" -> ObservableNodes
      [] tool = "get_threat_entity"      -> EntityNodes
MoreNodes(tool) ==
    CASE tool = "search_knowledge_base"  -> MoreSearchNodes
      [] tool = "get_observable_details" -> MoreObservableNodes
      [] tool = "get_threat_entity"      -> MoreEntityNodes

\* The listings of at least one record, and those with an edge that is no record.
EdgeLists(tool) ==
    {<<Edge(n)>> \o [i \in DOMAIN more |-> Edge(more[i])] :
        n \in FirstNodes(tool), more \in SeqsUpTo(MoreNodes(tool), MaxEdges - 1)}
    \cup {<<Obj(EmptyMap)>>, <<Edge(Null)>>, <<Null>>}

\* What `data` holds: missing, null, no listing, a null listing, or a listing whose
\* edges are missing, null or a list.
DataVals(tool) ==
    {Missing, Null, Obj(EmptyMap)}
    \cup {Obj([k \in {ListingKey(tool)} |-> l]) :
            l \in {Null, Obj(EmptyMap), MkObj([edges |-> Null]), MkObj([edges |-> List(<<>>)])}
                  \cup {MkObj([edges |-> List(es)]) : es \in EdgeLists(tool)}}

\* One well-formed data of each tool, sent along with an `errors` list.
SomeData(tool) ==
    Obj([k \in {ListingKey(tool)} |->
            MkObj([edges |-> List(<<Edge(CHOOSE n \in MoreNodes(tool) : TRUE)>>)])])

ErrorElems == {MkObj([message |-> Str(<<"a">>)]), MkObj([message |-> Str(<<"b">>)]),
               Obj(EmptyMap)}
ErrorsVals == {Null} \cup {List(l) : l \in SeqsUpTo(ErrorElems, MaxErrors)}

\* JSON bodies: not an object; an object without `errors`; an object with `errors`.
Bodies(tool) ==
    {NotJson, Null, List(<<>>)}
    \cup {MkObj([data |-> d]) : d \in DataVals(tool)}
    \cup {MkObj([errors |-> e, data |-> d]) :
            e \in ErrorsVals, d \in {Missing, Null, SomeData(tool)}}

\* The bodies sent with a status that is not 200.
FewBodies(tool) == {NotJson, MkObj([data |-> SomeData(tool)]),
                    MkObj([data |-> Obj([k \in {ListingKey(tool)} |-> MkObj([edges |-> List(<<>>)])])]),
                    MkObj([errors |-> List(<<MkObj([message |-> Str(<<"a">>)])>>), data |-> Null])}
Statuses == {200, 204, 301, 404, 500}
Responses(tool) ==
    ({200} \X Bodies(tool)) \cup ((Statuses \ {200}) \X FewBodies(tool))
\* The remote's answers under concurrency: one of each kind.
FewResponses(tool) == ({200} \X FewBodies(tool)) \cup {<<500, NotJson>>}

\* ------------------------------------------------------------ state
VARIABLES
    calls,    \* calls[c]: the tool and arguments of invocation c
    pc,       \* pc[c]: where invocation c stands
    resp,     \* resp[c]: what the remote did: [net, status, body]
    pending,  \* pending[c]: what the try statement of execute_query left: a value or a ToolError
    outcome,  \* outcome[c]: the text returned or the exception raised to the caller
    open,     \* the invocations whose httpx.AsyncClient is open
    sent      \* sent[c]: the requests invocation c posted

vars == <<calls, pc, resp, pending, outcome, open, sent>>

None == [t |-> "none"]

InitOf(C) ==
    /\ calls = [c \in C |-> None]
    /\ pc = [c \in C |-> "idle"]
    /\ resp = [c \in C |-> None]
    /\ pending = [c \in C |-> None]
    /\ outcome = [c \in C |-> None]
    /\ open = {}
    /\ sent = [c \in C |-> 0]

Calls == DOMAIN pc

\* A tool is invoked: the handler calls execute_query, which enters
\* `async with httpx.AsyncClient(timeout=30.0) as client`.
Invoke(c, call) ==
    /\ pc[c] = "idle"
    /\ calls' = [calls EXCEPT ![c] = call]
    /\ open' = open \cup {c}
    /\ pc' = [pc EXCEPT ![c] = "open"]
    /\ UNCHANGED <<resp, pending, outcome, sent>>

\* await client.post(...): the one request of the invocation goes out.
Post(c) ==
    /\ pc[c] = "open"
    /\ sent' = [sent EXCEPT ![c] = @ + 1]
    /\ pc' = [pc EXCEPT ![c] = "sent"]
    /\ UNCHANGED <<calls, resp, pending, outcome, open>>

\* The remote answers; the rest of the try statement runs (lines 55-73).
Respond(c, status, body) ==
    /\ pc[c] = "sent"
    /\ resp' = [resp EXCEPT ![c] = [net |-> "ok", status |-> status, body |-> body]]
    /\ pending' = [pending EXCEPT ![c] = ExecuteQuery(status, body)]
    /\ pc' = [pc EXCEPT ![c] = "exiting"]
    /\ UNCHANGED <<calls, outcome, open, sent>>

\* The exchange fails (no connection, or the 30 s timeout): post raises a
\* httpx.RequestError, which the except clauses turn into a ToolError.
NetworkFail(c, cls) ==
    /\ pc[c] = "sent"
    /\ resp' = [resp EXCEPT ![c] = [net |-> cls, status |-> 0, body |-> NotJson]]
    /\ pending' = [pending EXCEPT ![c] = ExceptClauses(Raise(cls, <<cls>>, 0))]
    /\ pc' = [pc EXCEPT ![c] = "exiting"]
    /\ UNCHANGED <<calls, outcome, open, sent>>

\* Mutant of Released: the client is closed on the return path only.
Released_OnReturnOnly(o, c, p) == IF IsExc(p) THEN o ELSE o \ {c}

\* The connections open once invocation c left its `async with` block.
Released(o, c, p) == o \ {c}

\* The `async with` block is left, by return or by exception: the client is
\* closed.  An exception goes through the handler to the caller.
Release(c) ==
    /\ pc[c] = "exiting"
    /\ open' = Released(open, c, pending[c])
    /\ IF IsExc(pending[c])
       THEN /\ outcome' = [outcome EXCEPT ![c] = pending[c]]
            /\ pc' = [pc EXCEPT ![c] = "done"]
       ELSE /\ pc' = [pc EXCEPT ![c] = "formatting"]
            /\ UNCHANGED outcome
    /\ UNCHANGED <<calls, resp, pending, sent>>

\* The handler formats the data execute_query returned, or raises.
Format(c) ==
    /\ pc[c] = "formatting"
    /\ outcome' = [outcome EXCEPT ![c] = Handler(calls[c].tool, calls[c].arg, pending[c])]
    /\ pc' = [pc EXCEPT ![c] = "done"]
    /\ UNCHANGED <<calls, resp, pending, open, sent>>

CallsOf(tools) ==
    {[tool |-> "search_knowledge_base", arg |-> a, limit |-> l] : a \in Args, l \in Limits}
    \cup {[tool |-> t, arg |-> a] : t \in tools \ {"search_knowledge_base"}, a \in Args}

\* One invocation, every remote behaviour.
Init == InitOf({1})
Next ==
    \/ \E c \in Calls, call \in CallsOf(Tools) : Invoke(c, call)
    \/ \E c \in Calls : Post(c)
    \/ \E c \in Calls : pc[c] = "sent" /\ \E r \in Responses(calls[c].tool) : Respond(c, r[1], r[2])
    \/ \E c \in Calls, cls \in RequestErrors : NetworkFail(c, cls)
    \/ \E c \in Calls : Release(c)
    \/ \E c \in Calls : Format(c)
Spec == Init /\ [][Next]_vars

\* Concurrent invocations, one remote behaviour of each kind.
InitConc == InitOf(1..NumCalls)
NextConc ==
    \/ \E c \in Calls, call \in {x \in CallsOf(Tools) : x.arg = <<"a">>} : Invoke(c, call)
    \/ \E c \in Calls : Post(c)
    \/ \E c \in Calls : pc[c] = "sent" /\ \E r \in FewResponses(calls[c].tool) : Respond(c, r[1], r[2])
    \/ \E c \in Calls, cls \in RequestErrors : NetworkFail(c, cls)
    \/ \E c \in Calls : Release(c)
    \/ \E c \in Calls : Format(c)
SpecConc == InitConc /\ [][NextConc]_vars

\* ------------------------------------------------------------ what the remote sent
\* These read the response alone, never a result of the handlers.
Done(c) == pc[c] = "done"
ReturnedText(c) == outcome[c].t = "str"
FailedAs(c, cls) == outcome[c].t = "exc" /\ outcome[c].cls = cls
Answered2xx(c) == resp[c].net = "ok" /\ resp[c].status \in 200..299

\* A 2xx JSON object whose `errors` is a non-empty list, the first with a message.
GraphQLFailure(c) ==
    /\ Answered2xx(c)
    /\ Has(resp[c].body, "errors")
    /\ resp[c].body.v.errors.t = "list"
    /\ resp[c].body.v.errors.v # <<>>
    /\ HasStr(resp[c].body.v.errors.v[1], "message")
FirstMessage(c) == resp[c].body.v.errors.v[1].v.message.v

\* A 2xx JSON object without `errors` whose data holds the tool's listing, a
\* list of edges that each hold a record.
Listed(c) ==
    LET b == resp[c].body
        k == ListingKey(calls[c].tool) IN
    /\ Answered2xx(c)
    /\ b.t = "obj" /\ "errors" \notin DOMAIN b.v
    /\ Has(b, "data") /\ Has(b.v.data, k) /\ Has(b.v.data.v[k], "edges")
    /\ b.v.data.v[k].v.edges.t = "list"
    /\ \A i \in DOMAIN b.v.data.v[k].v.edges.v :
          LET e == b.v.data.v[k].v.edges.v[i] IN Has(e, "node") /\ e.v.node.t = "obj"
RemoteEdges(c) == resp[c].body.v.data.v[ListingKey(calls[c].tool)].v.edges.v
Record(c, i) == RemoteEdges(c)[i].v.node

RECURSIVE SplitLines(_)
SplitLines(text) ==
    IF \A i \in DOMAIN text : text[i] # NL THEN <<text>>
    ELSE LET i == CHOOSE j \in DOMAIN text : text[j] = NL /\ \A k \in 1..(j - 1) : text[k] # NL
         IN <<SubSeq(text, 1, i - 1)>> \o SplitLines(SubSeq(text, i + 1, Len(text)))

\* ------------------------------------------------------------ claims

\* C1: a 2xx answer whose JSON body has a non-empty `errors` list ends the tool
\* call as a failed tool call (ToolError, never a text) whose message contains
\* the message of the first error, whatever `data` holds.
C1_ErrorsListFails ==
    \A c \in Calls :
        (Done(c) /\ GraphQLFailure(c)) =>
            /\ FailedAs(c, "ToolError")
            /\ Contains(outcome[c].msg, FirstMessage(c))

\* A call failed on a list of two errors with different messages, sent along
\* with a well-formed data.
C1_Witness ==
    \E c \in Calls :
        /\ Done(c) /\ GraphQLFailure(c)
        /\ Len(resp[c].body.v.errors.v) = 2
        /\ HasStr(resp[c].body.v.errors.v[2], "message")
        /\ resp[c].body.v.errors.v[2] # resp[c].body.v.errors.v[1]
        /\ Has(resp[c].body, "data") /\ resp[c].body.v.data.t = "obj"
        /\ FailedAs(c, "ToolError")

\* C2: an answer with a status that is not 2xx ends the tool call as a failed
\* tool call (ToolError) whose message carries the digits of the status; no text
\* is returned.
C2_StatusFails ==
    \A c \in Calls :
        (Done(c) /\ resp[c].net = "ok" /\ resp[c].status \notin 200..299) =>
            /\ FailedAs(c, "ToolError")
            /\ ~ReturnedText(c)
            /\ Contains(outcome[c].msg, Digits(resp[c].status))

\* A 500 answer that carried a JSON body with data.
C2_Witness ==
    \E c \in Calls :
        /\ Done(c) /\ resp[c].net = "ok" /\ resp[c].status = 500
        /\ Has(resp[c].body, "data")
        /\ outcome[c] = Raise("ToolError", <<"Error de conexion con OpenCTI: ", "5", "0", "0">>, 0)

\* C3: a successful answer with zero records is a text, never a failure:
\* search returns exactly the no-results text, the observable lookup a text
\* with the queried value and neither a score nor a description field, the
\* entity lookup a text with the queried name.
C3_EmptyIsText ==
    \A c \in Calls :
        (Done(c) /\ Listed(c) /\ RemoteEdges(c) = <<>>) =>
            /\ ReturnedText(c)
            /\ calls[c].tool = "search_knowledge_base" =>
                   outcome[c].v = <<"No se encontraron resultados.">>
            /\ calls[c].tool = "get_observable_details" =>
                   /\ Contains(outcome[c].v, calls[c].arg)
                   /\ \A i \in DOMAIN outcome[c].v :
                          outcome[c].v[i] \notin {"Score: ", "Descripcion: "}
            /\ calls[c].tool = "get_threat_entity" => Contains(outcome[c].v, calls[c].arg)

\* An observable lookup of the two-character value ended on an empty listing.
C3_Witness ==
    \E c \in Calls :
        /\ Done(c) /\ Listed(c) /\ RemoteEdges(c) = <<>>
        /\ calls[c].tool = "get_observable_details"
        /\ calls[c].arg = <<"b", "a">>
        /\ ReturnedText(c)

\* C4 (as the claim states it): N >= 1 records within the limit make
\* search_knowledge_base return a text of exactly N lines, the i-th holding the
\* entity_type and the id of the i-th record, whatever name and description hold.
C4_OneLinePerRecord ==
    \A c \in Calls :
        (/\ Done(c) /\ calls[c].tool = "search_knowledge_base" /\ Listed(c)
         /\ Len(RemoteEdges(c)) >= 1 /\ Len(RemoteEdges(c)) <= calls[c].limit
         /\ \A i \in DOMAIN RemoteEdges(c) :
                HasStr(Record(c, i), "entity_type") /\ HasStr(Record(c, i), "id")) =>
            /\ ReturnedText(c)
            /\ LineCount(outcome[c].v) = Len(RemoteEdges(c))
            /\ LET ls == SplitLines(outcome[c].v) IN
               \A i \in DOMAIN RemoteEdges(c) :
                   /\ Contains(ls[i], Record(c, i).v.entity_type.v)
                   /\ Contains(ls[i], Record(c, i).v.id.v)

\* A relation of a record that is a list of edges whose nodes carry the fields.
WellRel(r, k, fields) ==
    /\ Has(r, k) /\ Has(r.v[k], "edges") /\ r.v[k].v.edges.t = "list"
    /\ \A i \in DOMAIN r.v[k].v.edges.v :
          LET e == r.v[k].v.edges.v[i] IN
          Has(e, "node") /\ \A f \in fields : HasStr(e.v.node, f)
RelNodes(r, k) == [i \in DOMAIN r.v[k].v.edges.v |-> r.v[k].v.edges.v[i].v.node]

\* C5 (as the claim states it): get_observable_details formats the first record:
\* "Score: s" for every numeric score s of 0..100, the indicator names joined
\* with ", " in response order, and every report as "<name> (<published>)".
C5_FirstObservable ==
    \A c \in Calls :
        (/\ Done(c) /\ calls[c].tool = "get_observable_details" /\ Listed(c)
         /\ Len(RemoteEdges(c)) >= 1
         /\ HasStr(Record(c, 1), "entity_type") /\ HasStr(Record(c, 1), "observable_value")
         /\ Has(Record(c, 1), "x_opencti_score") /\ Record(c, 1).v.x_opencti_score.t = "num"
         /\ WellRel(Record(c, 1), "indicators", {"name"})
         /\ WellRel(Record(c, 1), "reports", {"name", "published"})) =>
            LET r == Record(c, 1)
                inds == RelNodes(r, "indicators")
                reps == RelNodes(r, "reports") IN
            /\ ReturnedText(c)
            /\ Contains(outcome[c].v, <<"Score: ">> \o Digits(r.v.x_opencti_score.v) \o <<NL>>)
            /\ Contains(outcome[c].v, Join([i \in DOMAIN inds |-> inds[i].v.name.v], <<", ">>))
            /\ \A i \in DOMAIN reps :
                   Contains(outcome[c].v, reps[i].v.name.v \o <<" (">> \o reps[i].v.published.v \o <<")">>)

\* C6: get_threat_entity formats the first record and picks the type-specific
\* lines by its entity_type: Threat-Actor has a "Tipos:" and an "Objetivos:" line
\* and no "Familia de malware:" line; Malware has a "Familia de malware:" line
\* and neither of the other two; any other type has none of the three.
C6_TypeLines ==
    \A c \in Calls :
        (/\ Done(c) /\ calls[c].tool = "get_threat_entity" /\ Listed(c)
         /\ Len(RemoteEdges(c)) >= 1
         /\ Has(Record(c, 1), "name") /\ HasStr(Record(c, 1), "entity_type")) =>
            LET ty == Record(c, 1).v.entity_type.v
                tipos == HasLine(outcome[c].v, "Tipos: ")
                objetivos == HasLine(outcome[c].v, "Objetivos: ")
                familia == HasLine(outcome[c].v, "Familia de malware: ") IN
            /\ ReturnedText(c)
            /\ ty = <<"Threat-Actor">> => (tipos /\ objetivos /\ ~familia)
            /\ ty = <<"Malware">> => (familia /\ ~tipos /\ ~objetivos)
            /\ ty \notin {<<"Threat-Actor">>, <<"Malware">>} => (~familia /\ ~tipos /\ ~objetivos)

\* A Malware record followed by a Threat-Actor record was formatted.
C6_Witness ==
    \E c \in Calls :
        /\ Done(c) /\ calls[c].tool = "get_threat_entity" /\ Listed(c)
        /\ Len(RemoteEdges(c)) = 2
        /\ Has(Record(c, 1), "name")
        /\ HasStr(Record(c, 1), "entity_type") /\ HasStr(Record(c, 2), "entity_type")
        /\ Record(c, 1).v.entity_type.v = <<"Malware">>
        /\ Record(c, 2).v.entity_type.v = <<"Threat-Actor">>
        /\ ReturnedText(c)
        /\ HasLine(outcome[c].v, "Familia de malware: ")

\* C7 (as the claim states it): whatever the remote does, an invocation returns
\* a text or fails with ToolError; no other exception reaches the caller.
C7_TextOrToolError ==
    \A c \in Calls : Done(c) => (ReturnedText(c) \/ FailedAs(c, "ToolError"))

AbsentOrStr(r, k) == Absent(r, k) \/ HasStr(r, k)

\* C8 (as the claim states it): on a non-empty result an optional field that is
\* absent (key missing or null) is rendered as a fixed placeholder and never
\* makes the call fail.
C8_Placeholders ==
    \A c \in Calls :
        (Done(c) /\ Listed(c) /\ Len(RemoteEdges(c)) >= 1) =>
            LET r == Record(c, 1)
                out == outcome[c].v IN
            /\ (/\ calls[c].tool = "search_knowledge_base"
                /\ \A i \in DOMAIN RemoteEdges(c) :
                       HasStr(Record(c, i), "entity_type") /\ HasStr(Record(c, i), "id")) =>
                   /\ ReturnedText(c)
                   /\ (Absent(r, "name") /\ Absent(r, "observable_value")) =>
                          Contains(out, <<"] ", "Desconocido", " (ID: ">>)
                   /\ (Absent(r, "description") /\ Absent(r, "x_opencti_description")) =>
                          Contains(out, <<"): ", "Sin descripcion">>)
            /\ (/\ calls[c].tool = "get_observable_details"
                /\ HasStr(r, "entity_type") /\ HasStr(r, "observable_value")
                /\ Absent(r, "x_opencti_score") \/ r.v.x_opencti_score.t = "num"
                /\ AbsentOrStr(r, "x_opencti_description")
                /\ Absent(r, "indicators") \/ WellRel(r, "indicators", {"name"})
                /\ Absent(r, "reports") \/ WellRel(r, "reports", {"name", "published"})) =>
                   /\ ReturnedText(c)
                   /\ Absent(r, "x_opencti_score") => Contains(out, <<"Score: ", "N/A">>)
                   /\ Absent(r, "x_opencti_description") => Contains(out, <<"Descripcion: ", "N/A">>)
                   /\ Absent(r, "indicators") => Contains(out, <<"Indicadores asociados: ", "Ninguno">>)
                   /\ Absent(r, "reports") => Contains(out, <<"Mencionado en reportes: ", "Ninguno">>)
            /\ (/\ calls[c].tool = "get_threat_entity"
                /\ HasStr(r, "name") /\ HasStr(r, "entity_type")) =>
                   /\ ReturnedText(c)
                   /\ Absent(r, "description") => Contains(out, <<"Descripcion: ", "N/A">>)
                   /\ Absent(r, "created") => Contains(out, <<"Creado: ", "N/A">>)
                   /\ (r.v.entity_type.v = <<"Threat-Actor">> /\ Absent(r, "threat_actor_types")) =>
                          \/ Contains(out, <<"Tipos: ", "[", "]">>)
                          \/ Contains(out, <<"Tipos: ", "None">>)
                   /\ (r.v.entity_type.v = <<"Threat-Actor">> /\ Absent(r, "goals")) =>
                          \/ Contains(out, <<"Objetivos: ", "[", "]">>)
                          \/ Contains(out, <<"Objetivos: ", "None">>)
                   /\ (r.v.entity_type.v = <<"Malware">> /\ Absent(r, "is_family")) =>
                          \/ Contains(out, <<"Familia de malware: ", "False">>)
                          \/ Contains(out, <<"Familia de malware: ", "None">>)

TransportFailure(c) == resp[c].net # "ok" \/ resp[c].status \notin 200..299

\* C9 (as the claim states it): each failure of execute_query has the kind of
\* its cause: a GraphQL error list fails with exactly "Error GraphQL: <first
\* message>", a status that is not 2xx or a network failure fails as a
\* transport error, and "Error interno:" is the message of no failure that has
\* one of these two causes; a GraphQL failure is not re-wrapped.
C9_OneKindPerCause ==
    \A c \in Calls :
        Done(c) =>
            /\ GraphQLFailure(c) =>
                   outcome[c] = Raise("ToolError", <<"Error GraphQL: ">> \o FirstMessage(c), 0)
            /\ TransportFailure(c) =>
                   /\ FailedAs(c, "ToolError")
                   /\ outcome[c].msg[1] \in {"Error de conexion con OpenCTI: ",
                                             "No se pudo conectar al servidor OpenCTI: "}
            /\ (FailedAs(c, "ToolError") /\ outcome[c].msg[1] = "Error interno: ") =>
                   (~GraphQLFailure(c) /\ ~TransportFailure(c))

InFlight == {c \in Calls : pc[c] \notin {"idle", "done"}}

\* C10: under every interleaving each invocation holds its own connection,
\* posts at most one request, and has released the connection once
\* execute_query was left, by return or by exception: the open connections are
\* those of in-flight invocations, never more than these, and none is open once
\* every invocation completed.
C10_ConnectionsReleased ==
    /\ open \subseteq InFlight
    /\ Cardinality(open) <= Cardinality(InFlight)
    /\ \A c \in Calls :
          /\ sent[c] <= 1
          /\ pc[c] \in {"formatting", "done"} => c \notin open
    /\ (\A c \in Calls : pc[c] \in {"idle", "done"}) => open = {}

\* One invocation failed and released its connection while another still holds
\* its own, with its request posted.
C10_Witness ==
    \E c \in Calls, d \in Calls :
        /\ c # d
        /\ Done(c) /\ FailedAs(c, "ToolError") /\ sent[c] = 1 /\ c \notin open
        /\ pc[d] = "sent" /\ d \in open
====
